---- MODULE Spec2Model ----
(***************************************************************************)
(* Model of app/bot/payment_gateways/pally.py: PallyPaymentGateway.        *)
(*                                                                         *)
(* Strings are sequences of symbols, so that the f-string concatenations   *)
(* of the signature formulas are real concatenations.  An optional value   *)
(* (a dict .get that may return None) is a record [some, v].               *)
(***************************************************************************)
EXTENDS Integers, Sequences, FiniteSets, TLC

VARIABLES api_token, shop_id, transactions, generated, last

vars == <<api_token, shop_id, transactions, generated, last>>

(* Bound: the number of create_payment calls that persist a Transaction.   *)
MaxTx == 2

----------------------------------------------------------------------------
(* Python values *)

None == [some |-> FALSE, v |-> <<>>]
Some(s) == [some |-> TRUE, v |-> s]

(* `not x` for x a str or None *)
Falsy(x) == ~x.some \/ x.v = <<>>

(* dict.get(key) on the form data / dict.get(key, default) *)
Get(data, key) == IF key \in DOMAIN data THEN Some(data[key]) ELSE None
GetDefault(data, key, default) == IF key \in DOMAIN data THEN data[key] ELSE default

DigitSym == <<"0", "1", "2", "3", "4", "5", "6", "7", "8", "9">>

(* str(n) for a non-negative integer price *)
RECURSIVE PyStr(_)
PyStr(n) == IF n < 10 THEN <<DigitSym[n + 1]>>
            ELSE PyStr(n \div 10) \o <<DigitSym[(n % 10) + 1]>>

(* hashlib.md5(s.encode()).hexdigest(): a lower-case hex digest, modelled  *)
(* as a collision-free function of the message.                            *)
Md5HexDigest(s) == <<"md5">> \o s

(* str.upper() on a hex digest (case-sensitive comparison follows) *)
Upper(d) == IF d # <<>> /\ d[1] = "md5" THEN <<"MD5">> \o Tail(d) ELSE d

----------------------------------------------------------------------------
(* Class attributes *)

name == <<"pally">>
currency_code == <<"RUB">>

(* TransactionStatus *)
PENDING == "PENDING"
SUCCESS == "SUCCESS"
FAILED == "FAILED"

----------------------------------------------------------------------------
(* External collaborators *)

IdSyms == <<"p1", "p2", "p3", "p4", "p5">>

(* SubscriptionData.generate_payment_id: a payment id not produced before  *)
generate_payment_id(n) == <<IdSyms[n + 1]>>

(* SubscriptionData.pack *)
pack(data) == <<"sub">> \o PyStr(data.user_id) \o <<"/">> \o PyStr(data.price)

(* Transaction.save: append the row to the store *)
save(txs, transaction) == Append(txs, transaction)

(* PaymentGateway._on_payment_succeeded / _on_payment_canceled: the shared *)
(* completion routine; it settles the PENDING Transaction of that payment  *)
(* id, and does nothing to a Transaction that is already settled.          *)
Settle(txs, payment_id, status) ==
    [i \in DOMAIN txs |->
        IF txs[i].payment_id = payment_id /\ txs[i].status = PENDING
        THEN [txs[i] EXCEPT !.status = status]
        ELSE txs[i]]

_on_payment_succeeded(txs, payment_id) == Settle(txs, payment_id, SUCCESS)
_on_payment_canceled(txs, payment_id) == Settle(txs, payment_id, FAILED)

----------------------------------------------------------------------------
(* create_payment *)

(* CredentialsUnset forgetting the shop id *)
CredentialsUnsetTokenOnly(tok, shop) == Falsy(tok)

(* `if not api_token or not shop_id` *)
CredentialsUnset(tok, shop) == Falsy(tok) \/ Falsy(shop)

(* the form-encoded body posted to the provider *)
Payload(shop, payment_id, data) ==
    [amount |-> PyStr(data.price),
     order_id |-> payment_id,
     description |-> <<"subscription">> \o PyStr(data.devices) \o <<"/">> \o PyStr(data.duration),
     type |-> <<"normal">>,
     shop_id |-> shop.v,
     currency_in |-> currency_code,
     custom |-> pack(data),
     payer_pays_commission |-> <<"1">>]

(* ProviderSucceeded testing for the JSON boolean instead of the str *)
ProviderSucceededBoolean(result) ==
    LET success == Get(result, "success")
    IN success.some /\ success.v.t = "bool" /\ success.v.v = <<"true">>

(* ProviderSucceeded testing only that the key is there *)
ProviderSucceededIfPresent(result) == Get(result, "success").some

(* `result.get("success") == "true"`: equality with the str "true"; a JSON *)
(* boolean is not equal to it.                                             *)
ProviderSucceeded(result) ==
    LET success == Get(result, "success")
    IN success.some /\ success.v.t = "str" /\ success.v.v = <<"true">>

(* `if not link_url` *)
LinkMissing(link_url) == Falsy(link_url)

(* Transaction(...) *)
NewTransaction(payment_id, data) ==
    [payment_id |-> payment_id,
     user_id |-> data.user_id,
     gateway |-> name,
     amount |-> data.price,
     currency |-> currency_code,
     status |-> PENDING,
     subscription |-> pack(data)]

(* f"Pally payment creation failed: {result.get('message', 'Unknown error')}" *)
FailureMessage(result) ==
    <<"Pally payment creation failed: ">> \o GetDefault(result, "message", <<"Unknown error">>)

NoPayload == [unsent |-> <<>>]

Outcome(raised, message, url, posts, payload, txs) ==
    [raised |-> raised, message |-> message, url |-> url,
     posts |-> posts, payload |-> payload, txs |-> txs]

(* The whole of create_payment.  n: payment ids generated so far; http:    *)
(* whether the POST and the decoding of its JSON body went through; result:*)
(* the decoded JSON object.                                                *)
create_payment(tok, shop, data, n, http, result, txs) ==
    IF CredentialsUnset(tok, shop)
    THEN Outcome("ValueError", <<"Pally API token or shop ID is not set.">>,
                 None, <<>>, NoPayload, txs)
    ELSE
      LET payment_id == generate_payment_id(n)
          payload == Payload(shop, payment_id, data)
          posts == <<payload>>
      IN IF http # "ok"
         THEN Outcome("ClientError", <<"http">>, None, posts, payload, txs)
         ELSE IF ProviderSucceeded(result)
         THEN LET link_url == Get(result, "link_page_url")
              IN IF LinkMissing(link_url)
                 THEN Outcome("ValueError",
                              <<"Pally API response did not contain link_page_url">>,
                              None, posts, payload, txs)
                 ELSE Outcome("", <<>>, link_url, posts, payload,
                              save(txs, NewTransaction(payment_id, data)))
         ELSE Outcome("ValueError", FailureMessage(result), None, posts, payload, txs)

----------------------------------------------------------------------------
(* webhook *)

(* `if not api_token` *)
TokenUnset(tok) == Falsy(tok)

(* `if status is None`: the redirect variant *)
IsRedirect(status) == ~status.some

(* RedirectMissing forgetting CurrencyIn *)
RedirectMissingNoCurrency(inv_id, amount, currency, signature) ==
    Falsy(inv_id) \/ Falsy(amount) \/ Falsy(signature)

(* `if not inv_id or not amount or not currency or not signature` *)
RedirectMissing(inv_id, amount, currency, signature) ==
    Falsy(inv_id) \/ Falsy(amount) \/ Falsy(currency) \/ Falsy(signature)

(* `if not status or not inv_id or not amount or not signature` *)
PostbackMissing(status, inv_id, amount, signature) ==
    Falsy(status) \/ Falsy(inv_id) \/ Falsy(amount) \/ Falsy(signature)

(* RedirectSignature with InvId and OutSum in the other order *)
RedirectSignatureSwapped(amount, inv_id, tok) ==
    Upper(Md5HexDigest(inv_id \o <<":">> \o amount \o <<":">> \o tok))

(* md5(f"{amount}:{inv_id}:{api_token}").hexdigest().upper() *)
RedirectSignature(amount, inv_id, tok) ==
    Upper(Md5HexDigest(amount \o <<":">> \o inv_id \o <<":">> \o tok))

(* PostbackSignature computed by the redirect formula *)
PostbackSignatureAsRedirect(status, inv_id, amount, tok) ==
    Upper(Md5HexDigest(amount \o <<":">> \o inv_id \o <<":">> \o tok))

(* md5(f"{status}:{inv_id}:{amount}:{api_token}").hexdigest().upper() *)
PostbackSignature(status, inv_id, amount, tok) ==
    Upper(Md5HexDigest(status \o <<":">> \o inv_id \o <<":">> \o amount \o <<":">> \o tok))

(* SignatureMismatch with the comparison dropped *)
SignatureNeverMismatches(expected_signature, signature) == FALSE

(* `if expected_signature != signature` *)
SignatureMismatch(expected_signature, signature) == expected_signature # signature

(* Dispatch with the two handlers exchanged *)
DispatchSwapped(status) ==
    IF status = <<"SUCCESS">> THEN "canceled"
    ELSE IF status = <<"FAIL">> THEN "succeeded"
    ELSE "unknown"

(* Dispatch without the final else: any other status cancels *)
DispatchElseCanceled(status) ==
    IF status = <<"SUCCESS">> THEN "succeeded" ELSE "canceled"

(* the if / elif / else on status that picks the handler *)
Dispatch(status) ==
    IF status = <<"SUCCESS">> THEN "succeeded"
    ELSE IF status = <<"FAIL">> THEN "canceled"
    ELSE "unknown"

(* json_response({"status": ..., "message": ...}, status=code) *)
JsonResponse(body_status, message, code) ==
    [status |-> code, body_status |-> body_status, message |-> message]

Reply(response, succeeded, canceled, txs) ==
    [response |-> response, propagated |-> "",
     succeeded |-> succeeded, canceled |-> canceled, txs |-> txs]

(* Caught without the except clause: the exception leaves webhook *)
Uncaught(e, succeeded, canceled, txs) ==
    [response |-> [status |-> 0, body_status |-> "", message |-> <<>>],
     propagated |-> "Exception",
     succeeded |-> succeeded, canceled |-> canceled, txs |-> txs]

(* `except Exception as e`: the 500 response carrying str(e) *)
Caught(e, succeeded, canceled, txs) ==
    Reply(JsonResponse("error", e, 500), succeeded, canceled, txs)

(* handle_payment_succeeded / handle_payment_canceled: delegation.  h is   *)
(* what the completion routine does: "ok", or an exception raised before   *)
(* ("raise_before") or after ("raise_after") it updated the Transaction.   *)
handle_payment_succeeded(txs, payment_id, h) ==
    IF h = "raise_before" THEN txs ELSE _on_payment_succeeded(txs, payment_id)

handle_payment_canceled(txs, payment_id, h) ==
    IF h = "raise_before" THEN txs ELSE _on_payment_canceled(txs, payment_id)

(* The postback branch after the signature check *)
Postback(status, inv_id, h, txs) ==
    LET which == Dispatch(status)
    IN IF which = "succeeded"
       THEN LET after == handle_payment_succeeded(txs, inv_id, h)
            IN IF h = "ok"
               THEN Reply(JsonResponse("ok", <<>>, 200), <<inv_id>>, <<>>, after)
               ELSE Caught(<<"handler error">>, <<inv_id>>, <<>>, after)
       ELSE IF which = "canceled"
       THEN LET after == handle_payment_canceled(txs, inv_id, h)
            IN IF h = "ok"
               THEN Reply(JsonResponse("ok", <<>>, 200), <<>>, <<inv_id>>, after)
               ELSE Caught(<<"handler error">>, <<>>, <<inv_id>>, after)
       ELSE Reply(JsonResponse("error", <<"Unknown status">>, 400), <<>>, <<>>, txs)

(* The whole of webhook.  request.raises: request.post() raises; h: see    *)
(* above.                                                                  *)
webhook(tok, request, h, txs) ==
    IF TokenUnset(tok)
    THEN Reply(JsonResponse("error", <<"API token not configured">>, 500), <<>>, <<>>, txs)
    ELSE IF request.raises
    THEN Caught(<<"parse error">>, <<>>, <<>>, txs)
    ELSE
      LET data == request.form
          inv_id == Get(data, "InvId")
          amount == Get(data, "OutSum")
          currency == Get(data, "CurrencyIn")
          status == Get(data, "Status")
          signature == Get(data, "SignatureValue")
      IN IF IsRedirect(status)
         THEN IF RedirectMissing(inv_id, amount, currency, signature)
              THEN Reply(JsonResponse("error", <<"Missing parameters">>, 400), <<>>, <<>>, txs)
              ELSE IF SignatureMismatch(RedirectSignature(amount.v, inv_id.v, tok.v), signature.v)
              THEN Reply(JsonResponse("error", <<"Invalid signature">>, 403), <<>>, <<>>, txs)
              ELSE Reply(JsonResponse("ok", <<>>, 200), <<>>, <<>>, txs)
         ELSE IF PostbackMissing(status, inv_id, amount, signature)
              THEN Reply(JsonResponse("error", <<"Missing parameters">>, 400), <<>>, <<>>, txs)
              ELSE IF SignatureMismatch(PostbackSignature(status.v, inv_id.v, amount.v, tok.v),
                                        signature.v)
              THEN Reply(JsonResponse("error", <<"Invalid signature">>, 403), <<>>, <<>>, txs)
              ELSE Postback(status.v, inv_id.v, h, txs)

----------------------------------------------------------------------------
(* Inputs *)

Token == <<"T">>
WrongToken == <<"X">>
Shop == <<"shop">>

Prices == {250}
SubscriptionDatas == [user_id : {7}, devices : {1}, duration : {30}, price : Prices]

JsonStr(s) == [t |-> "str", v |-> s]
JsonBool(s) == [t |-> "bool", v |-> s]

Link == <<"https://pay/bill">>
ProviderMessage == <<"shop blocked">>

OptSet(S) == {None} \cup {Some(x) : x \in S}

(* a dict holding the keys whose value is present *)
Dict(opts) == [k \in {key \in DOMAIN opts : opts[key].some} |-> opts[k].v]

(* decoded JSON bodies of the provider *)
Results ==
    {Dict([success |-> s, link_page_url |-> l, message |-> m]) :
        s \in OptSet({JsonStr(<<"true">>), JsonBool(<<"true">>),
                      JsonStr(<<"false">>), JsonBool(<<"false">>)}),
        l \in OptSet({<<>>, Link}),
        m \in OptSet({ProviderMessage})}

Form(inv, amt, cur, st, sig) ==
    Dict([InvId |-> inv, OutSum |-> amt, CurrencyIn |-> cur, Status |-> st,
          SignatureValue |-> sig])

Text(x) == IF x.some THEN x.v ELSE <<>>

(* The provider's side of the signature, as its documentation states it:   *)
(* strtoupper(md5($OutSum . ":" . $InvId . ":" . $apiToken)) for the       *)
(* success/fail POST and                                                   *)
(* strtoupper(md5($Status . ":" . $InvId . ":" . $OutSum . ":" . $apiToken)) *)
(* for the payment postback.                                               *)
Join3(a, b, c) == a \o <<":">> \o b \o <<":">> \o c
Join4(a, b, c, d) == a \o <<":">> \o b \o <<":">> \o c \o <<":">> \o d
ProviderRedirectSignature(OutSum, InvId, tok) ==
    <<"MD5">> \o Join3(OutSum, InvId, tok)
ProviderPostbackSignature(Status, InvId, OutSum, tok) ==
    <<"MD5">> \o Join4(Status, InvId, OutSum, tok)

OtherStatus(s) == IF s = <<"SUCCESS">> THEN <<"FAIL">> ELSE <<"SUCCESS">>

(* Signatures tried on a form whose fields are all there: the formula of   *)
(* its variant, the formula of the other variant, the postback formula of  *)
(* the other final status, the lower-case digest, the digest under another *)
(* token, and a string that is no digest.                                  *)
SignaturesFor(inv, amt, st) ==
    LET s == IF st.some THEN st.v ELSE <<"SUCCESS">>
    IN {ProviderRedirectSignature(amt, inv, Token),
        ProviderPostbackSignature(s, inv, amt, Token),
        ProviderPostbackSignature(OtherStatus(s), inv, amt, Token),
        IF st.some THEN ProviderPostbackSignature(s, inv, amt, WrongToken)
                   ELSE ProviderRedirectSignature(amt, inv, WrongToken),
        IF st.some THEN <<"md5">> \o Join4(s, inv, amt, Token)
                   ELSE <<"md5">> \o Join3(amt, inv, Token),
        <<"junk">>}

FinalStatuses == {<<"SUCCESS">>, <<"FAIL">>, <<"PENDING">>}

(* requests with every field there and non-empty; a postback need not      *)
(* carry CurrencyIn                                                        *)
CompleteForms ==
    UNION {{Form(Some(inv), Some(PyStr(250)), cur, st, Some(sig)) :
               sig \in SignaturesFor(inv, PyStr(250), st)} :
           inv \in {<<"p1">>, <<"p2">>},
           st \in OptSet(FinalStatuses),
           cur \in {Some(currency_code)}}
    \cup
    {Form(Some(<<"p1">>), Some(PyStr(250)), None, Some(st),
          Some(ProviderPostbackSignature(st, <<"p1">>, PyStr(250), Token))) :
        st \in FinalStatuses}

(* requests with fields absent or empty (two at most besides Status),      *)
(* unsigned or signed by the formula of their variant over the text of     *)
(* the fields that are there                                               *)
DeficientForms ==
    UNION {{Form(inv, amt, cur, st, sig) :
               sig \in {None, Some(<<>>),
                        Some(IF st.some
                             THEN ProviderPostbackSignature(st.v, Text(inv), Text(amt), Token)
                             ELSE ProviderRedirectSignature(Text(amt), Text(inv), Token))}} :
           inv \in OptSet({<<>>, <<"p1">>}),
           amt \in OptSet({<<>>, PyStr(250)}),
           cur \in OptSet({<<>>, currency_code}),
           st \in OptSet({<<>>, <<"SUCCESS">>, <<"PENDING">>})}

(* a redirect whose OutSum holds colons, so that its message reads like    *)
(* the postback message of payment p1, carrying that postback's signature  *)
ColonForm ==
    Form(Some(PyStr(250)), Some(<<"SUCCESS", ":", "p1">>), Some(currency_code), None,
         Some(ProviderPostbackSignature(<<"SUCCESS">>, <<"p1">>, PyStr(250), Token)))

Forms ==
    CompleteForms \cup {ColonForm} \cup
    {f \in DeficientForms :
        Cardinality({k \in {"InvId", "OutSum", "CurrencyIn", "SignatureValue"} :
                        k \notin DOMAIN f \/ f[k] = <<>>}) \in {1, 2}}

Requests ==
    {[raises |-> TRUE, form |-> <<>>]} \cup {[raises |-> FALSE, form |-> f] : f \in Forms}

----------------------------------------------------------------------------
(* State machine *)

Init ==
    /\ api_token \in OptSet({<<>>, Token})
    /\ shop_id \in OptSet({Shop})
    /\ transactions = <<>>
    /\ generated = 0
    /\ last = [op |-> "none", before |-> <<>>]

(* One call of create_payment.  `generated` counts the payment ids handed  *)
(* out by generate_payment_id, `last` records the call and its outcome.    *)
CreatePayment ==
    \E data \in SubscriptionDatas, http \in {"ok", "error"}, result \in Results :
        LET out == create_payment(api_token, shop_id, data, generated,
                                  http, result, transactions)
            used == IF out.posts = <<>> THEN 0 ELSE 1
        IN /\ generated + used <= MaxTx
           /\ transactions' = out.txs
           /\ generated' = generated + used
           /\ last' = [op |-> "create_payment", before |-> transactions,
                       data |-> data, http |-> http, result |-> result, out |-> out]
           /\ UNCHANGED <<api_token, shop_id>>

(* One webhook request.  h is read only when a handler runs. *)
Webhook ==
    \E request \in Requests, h \in {"ok", "raise_before", "raise_after"} :
        LET out == webhook(api_token, request, h, transactions)
        IN /\ (h # "ok" => out.succeeded \o out.canceled # <<>>)
           /\ transactions' = out.txs
           /\ last' = [op |-> "webhook", before |-> transactions,
                       request |-> request, h |-> h, out |-> out]
           /\ UNCHANGED <<api_token, shop_id, generated>>

Next == CreatePayment \/ Webhook

Spec == Init /\ [][Next]_vars

----------------------------------------------------------------------------
(* Vocabulary of the properties.  `last` holds the most recent call, its   *)
(* inputs, its outcome and the Transaction store before it.                *)

Configured(x) == x.some /\ x.v # <<>>

IsWebhook == last.op = "webhook"
IsCreate == last.op = "create_payment"

(* the webhook request's form was read *)
Parsed == IsWebhook /\ ~last.request.raises

Present(k) == k \in DOMAIN last.request.form /\ last.request.form[k] # <<>>
Field(k) == last.request.form[k]

RedirectRequest == Parsed /\ "Status" \notin DOMAIN last.request.form
PostbackRequest == Parsed /\ "Status" \in DOMAIN last.request.form

RedirectComplete ==
    RedirectRequest /\ \A k \in {"InvId", "OutSum", "CurrencyIn", "SignatureValue"} : Present(k)
PostbackComplete ==
    PostbackRequest /\ \A k \in {"Status", "InvId", "OutSum", "SignatureValue"} : Present(k)

RedirectSigned ==
    Field("SignatureValue") =
        ProviderRedirectSignature(Field("OutSum"), Field("InvId"), api_token.v)
PostbackSigned ==
    Field("SignatureValue") =
        ProviderPostbackSignature(Field("Status"), Field("InvId"), Field("OutSum"), api_token.v)

ValidRedirect == Configured(api_token) /\ RedirectComplete /\ RedirectSigned
ValidPostback == Configured(api_token) /\ PostbackComplete /\ PostbackSigned

Responded(code) == last.out.response.status = code
NoHandler == last.out.succeeded = <<>> /\ last.out.canceled = <<>>
StoreUnchanged == transactions = last.before

----------------------------------------------------------------------------
----------------------------------------------------------------------------
(* C2: with both credentials configured, the POST answered and its JSON    *)
(* holding success equal to the string "true" and a non-empty link,        *)
(* create_payment returns that link and appends exactly one Transaction:   *)
(* PENDING, with the payment id sent to the provider as order_id and the   *)
(* subscription price as amount.                                           *)
ProviderAccepted ==
    /\ IsCreate
    /\ Configured(api_token) /\ Configured(shop_id)
    /\ last.http = "ok"
    /\ "success" \in DOMAIN last.result /\ last.result.success = JsonStr(<<"true">>)
    /\ "link_page_url" \in DOMAIN last.result /\ last.result.link_page_url # <<>>

----------------------------------------------------------------------------
(* C3: with the API token or the shop id unset (absent or empty),          *)
(* create_payment raises the configuration error, posts nothing to the     *)
(* provider and persists nothing.                                          *)
CredentialsMissing == IsCreate /\ (~Configured(api_token) \/ ~Configured(shop_id))

UnsetCredentialsFailBeforeNetwork ==
    CredentialsMissing =>
        /\ last.out.raised = "ValueError"
        /\ last.out.message = <<"Pally API token or shop ID is not set.">>
        /\ last.out.posts = <<>>
        /\ last.out.url = None
        /\ StoreUnchanged

(* the token is set, the shop id is not, and the provider would accept *)
CreateWithoutShopId ==
    /\ CredentialsMissing /\ Configured(api_token)
    /\ last.http = "ok" /\ ProviderSucceeded(last.result)
    /\ last.out.raised = "ValueError"

----------------------------------------------------------------------------
(* C4 as stated: a complete, validly signed postback of Status SUCCESS or  *)
(* FAIL invokes exactly its handler, once, with InvId, and responds 200.   *)
FinalPostback ==
    ValidPostback /\ Field("Status") \in {<<"SUCCESS">>, <<"FAIL">>}

RightHandlerOnce ==
    /\ Field("Status") = <<"SUCCESS">> =>
          last.out.succeeded = <<Field("InvId")>> /\ last.out.canceled = <<>>
    /\ Field("Status") = <<"FAIL">> =>
          last.out.canceled = <<Field("InvId")>> /\ last.out.succeeded = <<>>

ValidPostbackAlwaysResponds200 ==
    FinalPostback => RightHandlerOnce /\ Responded(200)

(* C4, amended: a complete, validly signed postback of Status SUCCESS or   *)
(* FAIL invokes exactly its handler, once, with InvId; the webhook         *)
(* responds 200 when the handler returns and 500 when it raises.           *)
ValidPostbackInvokesOneHandler ==
    FinalPostback =>
        /\ RightHandlerOnce
        /\ last.h = "ok" => Responded(200)
        /\ last.h # "ok" => Responded(500)

(* a SUCCESS postback settled a PENDING payment and was answered 200 *)
SuccessPostbackHandled ==
    /\ FinalPostback /\ Field("Status") = <<"SUCCESS">>
    /\ last.out.succeeded = <<Field("InvId")>>
    /\ Responded(200)
    /\ \E i \in 1..Len(transactions) :
          /\ transactions[i].payment_id = Field("InvId")
          /\ last.before[i].status = PENDING
          /\ transactions[i].status = SUCCESS

----------------------------------------------------------------------------
(* C5: a request with every required field of its variant and a            *)
(* SignatureValue other than the variant's expected signature is answered  *)
(* 403, runs no handler and leaves the store alone; the redirect formula's *)
(* signature is refused on a postback and the postback formula's (for any  *)
(* status) on a redirect.                                                  *)
BadSignatureRejected ==
    Configured(api_token) =>
        /\ (RedirectComplete /\ ~RedirectSigned) \/ (PostbackComplete /\ ~PostbackSigned)
              => Responded(403) /\ NoHandler /\ StoreUnchanged
        /\ PostbackComplete
              /\ Field("SignatureValue") =
                    ProviderRedirectSignature(Field("OutSum"), Field("InvId"), api_token.v)
              => Responded(403) /\ NoHandler /\ StoreUnchanged
        /\ RedirectComplete
              /\ (\E s \in FinalStatuses : Field("SignatureValue") =
                    ProviderPostbackSignature(s, Field("InvId"), Field("OutSum"), api_token.v))
              => Responded(403) /\ NoHandler /\ StoreUnchanged

(* a SUCCESS postback for a PENDING payment, signed by the redirect        *)
(* formula, was refused                                                    *)
RedirectSignatureOnPostback ==
    /\ Configured(api_token) /\ PostbackComplete
    /\ Field("Status") = <<"SUCCESS">>
    /\ Field("SignatureValue") =
          ProviderRedirectSignature(Field("OutSum"), Field("InvId"), api_token.v)
    /\ \E i \in 1..Len(transactions) :
          transactions[i].payment_id = Field("InvId") /\ transactions[i].status = PENDING
    /\ Responded(403)

----------------------------------------------------------------------------
(* C6: a complete, validly signed postback whose Status is neither SUCCESS *)
(* nor FAIL is answered 400 and runs no handler.                           *)
UnknownStatusRejected ==
    ValidPostback /\ Field("Status") \notin {<<"SUCCESS">>, <<"FAIL">>}
        => Responded(400) /\ NoHandler /\ StoreUnchanged

(* a validly signed PENDING postback for a PENDING payment *)
PendingPostbackSeen ==
    /\ ValidPostback /\ Field("Status") = <<"PENDING">>
    /\ \E i \in 1..Len(transactions) :
          transactions[i].payment_id = Field("InvId") /\ transactions[i].status = PENDING
    /\ Responded(400)

----------------------------------------------------------------------------
(* C7: with the token configured, a request lacking (absent or empty) a    *)
(* required field of its variant is answered 400 and runs no handler,      *)
(* whatever its signature.                                                 *)
MissingFieldRejected ==
    Configured(api_token)
        /\ ((RedirectRequest /\ ~RedirectComplete) \/ (PostbackRequest /\ ~PostbackComplete))
        => Responded(400) /\ NoHandler /\ StoreUnchanged

(* a redirect without CurrencyIn whose signature is the valid one *)
SignedRedirectWithoutCurrency ==
    /\ Configured(api_token) /\ RedirectRequest
    /\ Present("InvId") /\ Present("OutSum") /\ Present("SignatureValue")
    /\ ~Present("CurrencyIn")
    /\ RedirectSigned
    /\ Responded(400)

----------------------------------------------------------------------------
(* C8: webhook never lets an exception out and answers 200, 400, 403 or    *)
(* 500; an exception of request.post() or of a handler gives 500 with its  *)
(* message, and an unset token gives 500 with no handler run.              *)
WebhookNeverRaises ==
    IsWebhook =>
        /\ last.out.propagated = ""
        /\ last.out.response.status \in {200, 400, 403, 500}
        /\ ~Configured(api_token) =>
              /\ Responded(500) /\ NoHandler /\ StoreUnchanged
              /\ last.out.response.message = <<"API token not configured">>
        /\ Configured(api_token) /\ last.request.raises =>
              /\ Responded(500) /\ NoHandler
              /\ last.out.response.message = <<"parse error">>
        /\ Configured(api_token) /\ last.h # "ok" =>
              /\ Responded(500)
              /\ last.out.response.message = <<"handler error">>

(* the success handler raised and the request was answered 500 *)
HandlerRaisedAnswered500 ==
    /\ FinalPostback /\ last.h = "raise_before"
    /\ last.out.succeeded = <<Field("InvId")>>
    /\ Responded(500)

----------------------------------------------------------------------------
(* C9: a complete, validly signed redirect is answered 200, runs no        *)
(* handler and leaves every Transaction as it was.                         *)
ValidRedirectChangesNothing ==
    ValidRedirect => Responded(200) /\ NoHandler /\ StoreUnchanged

(* a valid redirect for a payment that is PENDING *)
RedirectForPendingPayment ==
    /\ ValidRedirect
    /\ \E i \in 1..Len(transactions) :
          transactions[i].payment_id = Field("InvId") /\ transactions[i].status = PENDING
    /\ Responded(200)

----------------------------------------------------------------------------
(* C10: create_payment changes the store only when it returns a link.  A   *)
(* failed POST raises the client error after one attempt; success "true"   *)
(* without a link raises; success "false" raises with the provider's       *)
(* message; each leaves the store alone and returns no link.               *)
CreateSent == IsCreate /\ Configured(api_token) /\ Configured(shop_id)

SuccessIs(v) == "success" \in DOMAIN last.result /\ last.result.success = v

FailedCreateLeavesStore ==
    /\ IsCreate /\ ~StoreUnchanged => last.out.raised = "" /\ last.out.url.some
    /\ IsCreate /\ last.out.raised # "" => last.out.url = None /\ StoreUnchanged
    /\ CreateSent => Len(last.out.posts) = 1
    /\ CreateSent /\ last.http # "ok" => last.out.raised = "ClientError"
    /\ CreateSent /\ last.http = "ok" /\ SuccessIs(JsonStr(<<"true">>))
          /\ ("link_page_url" \notin DOMAIN last.result \/ last.result.link_page_url = <<>>)
          => /\ last.out.raised = "ValueError"
             /\ last.out.message = <<"Pally API response did not contain link_page_url">>
    /\ CreateSent /\ last.http = "ok"
          /\ (SuccessIs(JsonStr(<<"false">>)) \/ SuccessIs(JsonBool(<<"false">>)))
          => /\ last.out.raised = "ValueError"
             /\ "message" \in DOMAIN last.result =>
                   last.out.message =
                       <<"Pally payment creation failed: ">> \o last.result.message

(* the provider refused a payment, naming its reason and a link, while an  *)
(* earlier payment is in the store                                         *)
ProviderRefusedWithMessage ==
    /\ CreateSent /\ last.http = "ok" /\ SuccessIs(JsonStr(<<"false">>))
    /\ "message" \in DOMAIN last.result
    /\ "link_page_url" \in DOMAIN last.result /\ last.result.link_page_url = Link
    /\ Len(transactions) = 1
    /\ last.out.raised = "ValueError"

====
